---- MODULE Spec2Model ----
(***************************************************************************)
(* Model of the simulation core of msslcmd.py (a Missile Command clone):   *)
(* the Game object's fields, the event handlers of Game.handle_events and  *)
(* the whole of Game.update as one step.                                   *)
(*                                                                         *)
(* Positions are integers (the program uses floats); a velocity component  *)
(* is the truncated quotient (d * speed) / distance with the integer square*)
(* root as distance.  All distance tests (collides_with, has_reached_target*)
(* and the ground hit test) are done exactly on squared integers.          *)
(* Colours, the draw methods and the QUIT event (which only ends the loop) *)
(* are left out: no field they write is read by update or handle_events.   *)
(*                                                                         *)
(* The time-like constants of the program (speeds, spawn interval, blast   *)
(* duration, starting ammo) are scaled so that a level lasts a few ticks;  *)
(* they are the bounds of the model.  Screen size, entity positions, hit   *)
(* radius and score rewards keep the program's values.                     *)
(*                                                                         *)
(* Specifications: Spec is the game (ticks, pointer-button events, the     *)
(* restart key); SpecLive is the game without restart under weak fairness  *)
(* of the tick; SpecImpact is the ground branch of update as a function of *)
(* the impact column; SpecBlast is the life of the explosions with the     *)
(* program's own growth rate and duration.                                 *)
(***************************************************************************)
EXTENDS Integers, Sequences, FiniteSets, TLC

VARIABLES
    game_over,                    \* Game.game_over
    score,                        \* Game.score
    level,                        \* Game.level
    enemy_spawn_timer,            \* Game.enemy_spawn_timer
    enemy_spawn_rate,             \* Game.enemy_spawn_rate
    missiles_spawned_this_level,  \* Game.missiles_spawned_this_level
    missiles_per_level,           \* Game.missiles_per_level
    flash_timer,                  \* Game.flash_timer
    bases,                        \* Game.bases: sequence of MissileBase
    cities,                       \* Game.cities: sequence of City
    player_missiles,              \* Game.player_missiles
    enemy_missiles,               \* Game.enemy_missiles
    explosions,                   \* Game.explosions
    \* history variables (not fields of the program)
    restarts,                     \* number of restarts performed
    clicks,                       \* pointer-button events handled so far
    spawns,                       \* Threats spawned so far, restarts included
    since_spawn,                  \* updates run since the last spawn, saturating
    hist                          \* what has happened since the (re)start:
        \* spawned_in_level  Threats appended since the level began
        \* blast_kills       Threats removed by a Blast
        \* overlap_kills     ... of which lay inside two or more Blasts
        \* bonus_total       sum of the level-complete bonuses
        \* levels_done       number of level-completes
        \* fires             per base, successful fires since its last refill
        \* last_spawn        the Threats appended by the last update
        \* last_complete     Threats appended during the last completed
        \*                   level, that level's quota, and whether a
        \*                   destroyed base was regenerated at its end
        \* cities_kept       sum, over the level-completes, of the cities
        \*                   active at the level-complete
        \* over_clicks       pointer-button events handled in GAME_OVER

vars == <<game_over, score, level, enemy_spawn_timer, enemy_spawn_rate,
          missiles_spawned_this_level, missiles_per_level, flash_timer,
          bases, cities, player_missiles, enemy_missiles, explosions,
          restarts, clicks, spawns, since_spawn, hist>>

(***************************************************************************)
(* Program constants kept at the program's values.                         *)
(***************************************************************************)
SCREEN_WIDTH == 800
SCREEN_HEIGHT == 600
EXPLOSION_MAX_RADIUS == 60
KILL_REWARD == 25
CITY_BONUS == 100
BASE_BONUS == 50
\* mutant of HIT_RADIUS: a radius wider than the gap between neighbours
HIT_RADIUS_Wide == 3 * 20
\* the hit radius of the city and base loops of update
HIT_RADIUS == 20
FLASH_DURATION == 20

(***************************************************************************)
(* Bounds: the program's time-like constants, scaled down, and the caps of *)
(* the exploration.                                                        *)
(***************************************************************************)
ENEMY_MISSILE_SPEED == 200     \* 1.5 in the program
PLAYER_MISSILE_SPEED == 240    \* 5 in the program
GrowthUpdates == 1             \* updates a Blast grows for, 30 in the program
EXPLOSION_DURATION == 2        \* 45 in the program
starting_ammo == 1             \* Game.starting_ammo, 10 in the program
SPAWN_RATE_INIT == 3           \* initial Game.enemy_spawn_rate, 60
SPAWN_RATE_MIN == 2            \* floor of the spawn interval, 30
SPAWN_RATE_STEP == 1           \* decrease per level, 5
MaxThreats == 9                \* Threats spawned before the exploration stops
MaxClicks == 3                 \* pointer-button events explored
MaxRestarts == 1               \* restarts explored
MaxTimer == 4                  \* spawn tick counter at which the exploration stops

\* 2 in the program: the maximum radius is a multiple of it
EXPLOSION_GROWTH_RATE == EXPLOSION_MAX_RADIUS \div GrowthUpdates

\* random.randint(50, SCREEN_WIDTH - 50): the start columns explored
SpawnXs == {400}
\* pygame.mouse.get_pos(): the pointer positions explored
MousePositions == {<<370, 190>>}
\* random.choice(possible_targets): the positions in a list of n explored
TargetPicks(n) == {1, n - 1} \cap (1..n)
Buttons == {1, 2, 3}

(***************************************************************************)
(* Arithmetic helpers.                                                     *)
(***************************************************************************)
Abs(n) == IF n < 0 THEN -n ELSE n

Sq(n) == n * n

Max(a, b) == IF a >= b THEN a ELSE b

Min(a, b) == IF a <= b THEN a ELSE b

RECURSIVE SqrtSearch(_, _, _)
\* largest r in lo..hi with r*r <= n  (lo*lo <= n assumed)
SqrtSearch(n, lo, hi) ==
    IF lo >= hi THEN lo
    ELSE LET mid == (lo + hi + 1) \div 2
         IN IF mid * mid <= n THEN SqrtSearch(n, mid, hi)
                              ELSE SqrtSearch(n, lo, mid - 1)

\* math.sqrt, truncated
ISqrt(n) == SqrtSearch(n, 0, 2000)

\* (d / distance) * speed, truncated toward zero
Component(d, distance, speed) ==
    IF d >= 0 THEN (d * speed) \div distance
              ELSE -(((-d) * speed) \div distance)

(***************************************************************************)
(* Explosion                                                               *)
(***************************************************************************)
\* Explosion.__init__, the duration being a parameter
ExplosionOf(x, y, duration) ==
    [x |-> x, y |-> y, radius |-> 0, growing |-> TRUE, timer |-> duration]

Explosion(x, y) == ExplosionOf(x, y, EXPLOSION_DURATION)

\* mutant of ExplosionUpdateAt: growing is never cleared
ExplosionUpdateAt_NoStop(e, rate) ==
    [e EXCEPT !.radius = IF e.growing THEN e.radius + rate ELSE e.radius,
              !.timer = e.timer - 1]

\* Explosion.update, the growth rate being a parameter: the explosion after
\* the update
ExplosionUpdateAt(e, rate) ==
    LET r == IF e.growing THEN e.radius + rate ELSE e.radius
        g == IF e.growing /\ r >= EXPLOSION_MAX_RADIUS THEN FALSE ELSE e.growing
    IN [e EXCEPT !.radius = r, !.growing = g, !.timer = e.timer - 1]

ExplosionUpdate(e) == ExplosionUpdateAt(e, EXPLOSION_GROWTH_RATE)

\* the value Explosion.update returns: still active
ExplosionAlive(e) == e.timer > 0

\* Explosion.collides_with: distance <= radius
CollidesWith(e, x, y) == Sq(x - e.x) + Sq(y - e.y) <= Sq(e.radius)

(***************************************************************************)
(* Missile, PlayerMissile, EnemyMissile                                    *)
(***************************************************************************)
Missile(start_x, start_y, target_x, target_y, speed) ==
    LET dx == target_x - start_x
        dy == target_y - start_y
        distance == ISqrt(Sq(dx) + Sq(dy))
    IN [x |-> start_x, y |-> start_y,
        target_x |-> target_x, target_y |-> target_y, speed |-> speed,
        velocity_x |-> IF distance > 0 THEN Component(dx, distance, speed) ELSE 0,
        velocity_y |-> IF distance > 0 THEN Component(dy, distance, speed) ELSE 0]

PlayerMissile(start_x, start_y, target_x, target_y) ==
    Missile(start_x, start_y, target_x, target_y, PLAYER_MISSILE_SPEED)

EnemyMissile(start_x, target_x, target_y) ==
    Missile(start_x, 0, target_x, target_y, ENEMY_MISSILE_SPEED)

\* Missile.update
MissileUpdate(m) ==
    [m EXCEPT !.x = m.x + m.velocity_x, !.y = m.y + m.velocity_y]

\* Missile.has_reached_target: distance < speed
HasReachedTarget(m) ==
    Sq(m.x - m.target_x) + Sq(m.y - m.target_y) < Sq(m.speed)

(***************************************************************************)
(* MissileBase, City and Game.setup_game                                   *)
(***************************************************************************)
MissileBase(x, y) == [x |-> x, y |-> y, active |-> TRUE, ammo |-> 10]

City(x, y) == [x |-> x, y |-> y, active |-> TRUE]

\* the bases setup_game creates, ammo set to starting_ammo
SetupBases ==
    LET made == << MissileBase(100, SCREEN_HEIGHT - 40),
                   MissileBase(SCREEN_WIDTH \div 2, SCREEN_HEIGHT - 40),
                   MissileBase(SCREEN_WIDTH - 100, SCREEN_HEIGHT - 40) >>
    IN [i \in 1..3 |-> [made[i] EXCEPT !.ammo = starting_ammo]]

\* the cities setup_game creates
SetupCities ==
    << City(200, SCREEN_HEIGHT - 35),
       City(250, SCREEN_HEIGHT - 35),
       City(300, SCREEN_HEIGHT - 35),
       City(SCREEN_WIDTH - 300, SCREEN_HEIGHT - 35),
       City(SCREEN_WIDTH - 250, SCREEN_HEIGHT - 35),
       City(SCREEN_WIDTH - 200, SCREEN_HEIGHT - 35) >>

RECURSIVE SumAmmo(_, _)
\* sum(base.ammo for base in bases[1..n])
SumAmmo(bs, n) == IF n = 0 THEN 0 ELSE SumAmmo(bs, n - 1) + bs[n].ammo

ActiveCount(s) == Cardinality({i \in 1..Len(s) : s[i].active})

\* the history at the start of a game
HistInit ==
    [spawned_in_level |-> 0, blast_kills |-> 0, overlap_kills |-> 0,
     bonus_total |-> 0, levels_done |-> 0, fires |-> <<0, 0, 0>>,
     last_spawn |-> <<>>,
     last_complete |-> [spawned |-> 0, quota |-> 0, regenerated |-> FALSE],
     cities_kept |-> 0, over_clicks |-> 0]

(***************************************************************************)
(* Init: the Game object after Game.__init__                               *)
(***************************************************************************)
Init ==
    /\ game_over = FALSE
    /\ score = 0
    /\ level = 1
    /\ enemy_spawn_timer = 0
    /\ enemy_spawn_rate = SPAWN_RATE_INIT
    /\ missiles_spawned_this_level = 0
    /\ flash_timer = 0
    /\ bases = SetupBases
    /\ cities = SetupCities
    /\ player_missiles = <<>>
    /\ enemy_missiles = <<>>
    /\ explosions = <<>>
    /\ missiles_per_level = SumAmmo(SetupBases, 3)
    /\ restarts = 0
    /\ clicks = 0
    /\ spawns = 0
    /\ since_spawn = SPAWN_RATE_INIT
    /\ hist = HistInit

(***************************************************************************)
(* Game.handle_events                                                      *)
(***************************************************************************)
\* mutant of CanFire: the ammo test forgotten
CanFire_NoAmmoTest(base) == base.active

\* the test of MissileBase.fire
CanFire(base) == base.active /\ base.ammo > 0

\* MissileBase.fire: the base afterwards and the missile returned (<<>> for None)
MissileBaseFire(base, target_x, target_y) ==
    IF CanFire(base)
    THEN [base |-> [base EXCEPT !.ammo = base.ammo - 1],
          missile |-> << PlayerMissile(base.x, base.y, target_x, target_y) >>]
    ELSE [base |-> base, missile |-> <<>>]

\* mutant of MouseButtonDown: the "not self.game_over" test forgotten
MouseButtonDown_AnyState(button, pos) ==
    /\ clicks < MaxClicks
    /\ clicks' = clicks + 1
    /\ LET fired == MissileBaseFire(bases[button], pos[1], pos[2])
       IN /\ bases' = [bases EXCEPT ![button] = fired.base]
          /\ player_missiles' = player_missiles \o fired.missile
          /\ hist' = [hist EXCEPT
                         !.fires[button] = hist.fires[button] + Len(fired.missile),
                         !.over_clicks = hist.over_clicks + (IF game_over THEN 1 ELSE 0)]
    /\ UNCHANGED <<game_over, score, level, enemy_spawn_timer, enemy_spawn_rate,
                   missiles_spawned_this_level, missiles_per_level, flash_timer,
                   cities, enemy_missiles, explosions, restarts, spawns,
                   since_spawn>>

\* MOUSEBUTTONDOWN with button 1, 2 or 3 and the pointer at pos
MouseButtonDown(button, pos) ==
    /\ clicks < MaxClicks
    /\ clicks' = clicks + 1
    /\ IF ~game_over
       THEN LET fired == MissileBaseFire(bases[button], pos[1], pos[2])
            IN /\ bases' = [bases EXCEPT ![button] = fired.base]
               /\ player_missiles' = player_missiles \o fired.missile
               /\ hist' = [hist EXCEPT !.fires[button] =
                                          hist.fires[button] + Len(fired.missile)]
       ELSE /\ hist' = [hist EXCEPT !.over_clicks = hist.over_clicks + 1]
            /\ UNCHANGED <<bases, player_missiles>>
    /\ UNCHANGED <<game_over, score, level, enemy_spawn_timer, enemy_spawn_rate,
                   missiles_spawned_this_level, missiles_per_level, flash_timer,
                   cities, enemy_missiles, explosions, restarts, spawns,
                   since_spawn>>

\* mutant of KeySpace: the restart without its call of setup_game
KeySpace_NoSetup ==
    /\ IF game_over
       THEN /\ restarts < MaxRestarts
            /\ game_over' = FALSE
            /\ score' = 0
            /\ level' = 1
            /\ restarts' = restarts + 1
            /\ hist' = HistInit
            /\ UNCHANGED <<bases, cities, player_missiles, enemy_missiles,
                           explosions, clicks, spawns, since_spawn,
                           enemy_spawn_timer,
                           enemy_spawn_rate, missiles_spawned_this_level,
                           missiles_per_level, flash_timer>>
       ELSE UNCHANGED vars

\* KEYDOWN with K_SPACE
KeySpace ==
    /\ IF game_over
       THEN /\ restarts < MaxRestarts
            /\ game_over' = FALSE
            /\ score' = 0
            /\ level' = 1
            \* setup_game
            /\ bases' = SetupBases
            /\ cities' = SetupCities
            /\ player_missiles' = <<>>
            /\ enemy_missiles' = <<>>
            /\ explosions' = <<>>
            /\ restarts' = restarts + 1
            /\ hist' = HistInit
            /\ UNCHANGED <<clicks, spawns, since_spawn>>
            /\ UNCHANGED <<enemy_spawn_timer, enemy_spawn_rate,
                           missiles_spawned_this_level, missiles_per_level,
                           flash_timer>>
       ELSE UNCHANGED vars

(***************************************************************************)
(* Game.update, part by part                                               *)
(***************************************************************************)
\* the targets spawn_enemy_missile chooses from: active cities, then active bases
PossibleTargets(cs, bs) ==
    SelectSeq([i \in 1..Len(cs) |-> <<cs[i].x, cs[i].y, cs[i].active>>],
              LAMBDA t : t[3])
    \o SelectSeq([i \in 1..Len(bs) |-> <<bs[i].x, bs[i].y, bs[i].active>>],
                 LAMBDA t : t[3])

\* mutant of SpawnDue: the quota test forgotten
SpawnDue_NoQuota(timer, rate, spawned, quota) == timer >= rate

\* the spawn test of update
SpawnDue(timer, rate, spawned, quota) == timer >= rate /\ spawned < quota

RECURSIVE PlayerPass_NoBlast(_, _, _, _)
\* mutant of PlayerPass: a missile that has reached its target is removed
\* without an explosion
PlayerPass_NoBlast(pms, i, kept, expl) ==
    IF i > Len(pms) THEN [missiles |-> kept, explosions |-> expl]
    ELSE LET m == MissileUpdate(pms[i])
         IN IF HasReachedTarget(m) \/ m.y < 0 \/ m.x < 0 \/ m.x > SCREEN_WIDTH
            THEN PlayerPass_NoBlast(pms, i + 1, kept, expl)
            ELSE PlayerPass_NoBlast(pms, i + 1, Append(kept, m), expl)

RECURSIVE PlayerPass(_, _, _, _)
\* the loop over player_missiles[:]: missiles kept and explosions afterwards
PlayerPass(pms, i, kept, expl) ==
    IF i > Len(pms) THEN [missiles |-> kept, explosions |-> expl]
    ELSE LET m == MissileUpdate(pms[i])
         IN IF HasReachedTarget(m)
            THEN PlayerPass(pms, i + 1, kept,
                            Append(expl, Explosion(m.target_x, m.target_y)))
            ELSE IF m.y < 0 \/ m.x < 0 \/ m.x > SCREEN_WIDTH
            THEN PlayerPass(pms, i + 1, kept, expl)
            ELSE PlayerPass(pms, i + 1, Append(kept, m), expl)

\* the explosions of expl a point lies in
Covering(expl, x, y) == {j \in 1..Len(expl) : CollidesWith(expl[j], x, y)}

\* the ground test of update
HitGround(m) == m.y >= SCREEN_HEIGHT - 50

\* the hit test of the city and base loops
InHitRange(entity, x) == entity.active /\ Abs(entity.x - x) < HIT_RADIUS

\* index of the first entity of s hit at x, 0 when none
FirstHit(s, x) ==
    LET hit == {i \in 1..Len(s) : InHitRange(s[i], x)}
    IN IF hit = {} THEN 0 ELSE CHOOSE i \in hit : \A j \in hit : i <= j

\* mutant of ImpactLoop: the entity hit is deactivated but does not explode
ImpactLoop_NoBlast(s, expl, x) ==
    LET i == FirstHit(s, x)
    IN IF i = 0 THEN [entities |-> s, explosions |-> expl]
       ELSE [entities |-> [s EXCEPT ![i].active = FALSE], explosions |-> expl]

\* one of the loops "for city in cities" / "for base in bases" of the ground
\* branch: the first entity hit is deactivated and explodes
ImpactLoop(s, expl, x) ==
    LET i == FirstHit(s, x)
    IN IF i = 0 THEN [entities |-> s, explosions |-> expl]
       ELSE [entities |-> [s EXCEPT ![i].active = FALSE],
             explosions |-> Append(expl, Explosion(s[i].x, s[i].y))]

\* the ground branch for a missile at x: the city loop, then the base loop
GroundImpact(cs, bs, expl, x) ==
    LET c == ImpactLoop(cs, expl, x)
        b == ImpactLoop(bs, c.explosions, x)
    IN [cities |-> c.entities, bases |-> b.entities, explosions |-> b.explosions]

\* mutant of BlastKill: the break forgotten, one reward per covering explosion
BlastKill_PerBlast(acc, cover) ==
    [acc EXCEPT !.score = acc.score + KILL_REWARD * Cardinality(cover),
                !.kills = acc.kills + 1,
                !.overlaps = acc.overlaps + (IF Cardinality(cover) > 1 THEN 1 ELSE 0)]

\* the body of "for explosion in explosions: if collides_with: ... break" for a
\* missile inside the explosions cover: removed (not kept) and rewarded once
BlastKill(acc, cover) ==
    [acc EXCEPT !.score = acc.score + KILL_REWARD,
                !.kills = acc.kills + 1,
                !.overlaps = acc.overlaps + (IF Cardinality(cover) > 1 THEN 1 ELSE 0)]

RECURSIVE EnemyPass(_, _, _)
\* the loop over enemy_missiles[:]
EnemyPass(ems, i, acc) ==
    IF i > Len(ems) THEN acc
    ELSE LET m == MissileUpdate(ems[i])
             cover == Covering(acc.explosions, m.x, m.y)
         IN IF cover # {}
            THEN EnemyPass(ems, i + 1, BlastKill(acc, cover))
            ELSE IF HitGround(m)
            THEN LET g == GroundImpact(acc.cities, acc.bases, acc.explosions, m.x)
                 IN EnemyPass(ems, i + 1,
                        [acc EXCEPT !.cities = g.cities, !.bases = g.bases,
                                    !.explosions = g.explosions])
            ELSE EnemyPass(ems, i + 1,
                     [acc EXCEPT !.missiles = Append(acc.missiles, m)])

\* mutant of ExplosionPassAt: an explosion is dropped one update late
ExplosionPassAt_Late(expl, rate) ==
    SelectSeq([j \in 1..Len(expl) |-> ExplosionUpdateAt(expl[j], rate)],
              LAMBDA e : e.timer >= 0)

\* the loop over explosions[:], the growth rate being a parameter
ExplosionPassAt(expl, rate) ==
    SelectSeq([j \in 1..Len(expl) |-> ExplosionUpdateAt(expl[j], rate)],
              ExplosionAlive)

ExplosionPass(expl) == ExplosionPassAt(expl, EXPLOSION_GROWTH_RATE)

\* mutant of AllCitiesDestroyed: any() written for all()
AllCitiesDestroyed_Any(cs) == \E i \in 1..Len(cs) : ~cs[i].active

\* all_cities_destroyed
AllCitiesDestroyed(cs) == \A i \in 1..Len(cs) : ~cs[i].active

\* any_city_alive
AnyCityAlive(cs) == \E i \in 1..Len(cs) : cs[i].active

\* mutant of LevelComplete: the any_city_alive conjunct forgotten
LevelComplete_NoCityTest(ems, spawned, quota, cs) ==
    Len(ems) = 0 /\ spawned >= quota

\* mutant of LevelComplete: > written for >= in the quota test
LevelComplete_QuotaExceeded(ems, spawned, quota, cs) ==
    Len(ems) = 0 /\ spawned > quota /\ AnyCityAlive(cs)

\* the level-completion test
LevelComplete(ems, spawned, quota, cs) ==
    Len(ems) = 0 /\ spawned >= quota /\ AnyCityAlive(cs)

\* mutant of CityBonus: the "if city.active" test forgotten
CityBonus_All(cs) == CITY_BONUS * Len(cs)

\* the bonus for remaining cities
CityBonus(cs) == CITY_BONUS * ActiveCount(cs)

\* mutant of RefillBases: ammo refilled, destroyed bases not regenerated
RefillBases_NoRegen(bs) ==
    [i \in 1..Len(bs) |-> [bs[i] EXCEPT !.ammo = starting_ammo]]

\* the bases after "regenerate and refill all bases"
RefillBases(bs) ==
    [i \in 1..Len(bs) |-> [bs[i] EXCEPT !.active = TRUE, !.ammo = starting_ammo]]

\* mutant of BaseBonus: the bases counted before they are regenerated
BaseBonus_BeforeRegen(bs) == BASE_BONUS * ActiveCount(bs)

\* the bonus for the bases, counted after regeneration
BaseBonus(bs) == BASE_BONUS * ActiveCount(RefillBases(bs))

\* mutant of LevelQuota: the ammo summed before the bases are refilled
LevelQuota_BeforeRefill(bs) == SumAmmo(bs, Len(bs))

\* the quota of the next level: the ammo of the bases, summed after the refill
LevelQuota(bs) == SumAmmo(RefillBases(bs), Len(bs))

\* mutant of NextSpawnRate: the floor forgotten
NextSpawnRate_NoFloor(rate) == rate - SPAWN_RATE_STEP

\* the spawn interval of the next level
NextSpawnRate(rate) == Max(SPAWN_RATE_MIN, rate - SPAWN_RATE_STEP)

(***************************************************************************)
(* Game.update as one step.  spawn is the sequence of Threats that         *)
(* spawn_enemy_missile appends in this tick (none or one).                 *)
(***************************************************************************)
Update(spawn) ==
    LET timer1 == enemy_spawn_timer + 1
        due == SpawnDue(timer1, enemy_spawn_rate, missiles_spawned_this_level,
                        missiles_per_level)
        timer2 == IF due THEN 0 ELSE timer1
        spawned1 == missiles_spawned_this_level + Len(spawn)
        pp == PlayerPass(player_missiles, 1, <<>>, explosions)
        ep == EnemyPass(enemy_missiles \o spawn, 1,
                  [missiles |-> <<>>, explosions |-> pp.explosions,
                   cities |-> cities, bases |-> bases, score |-> score,
                   kills |-> 0, overlaps |-> 0])
        done == LevelComplete(ep.missiles, spawned1, missiles_per_level, ep.cities)
        bonus == CityBonus(ep.cities) + BaseBonus(ep.bases)
    IN /\ player_missiles' = pp.missiles
       /\ enemy_missiles' = ep.missiles
       /\ explosions' = ExplosionPass(ep.explosions)
       /\ cities' = ep.cities
       /\ game_over' = AllCitiesDestroyed(ep.cities)
       /\ UNCHANGED <<restarts, clicks>>
       /\ spawns' = spawns + Len(spawn)
       /\ since_spawn' = IF spawn # <<>> THEN 0
                         ELSE Min(since_spawn + 1, SPAWN_RATE_INIT)
       /\ hist' = LET h == [hist EXCEPT
                               !.blast_kills = hist.blast_kills + ep.kills,
                               !.overlap_kills = hist.overlap_kills + ep.overlaps,
                               !.last_spawn = spawn,
                               !.spawned_in_level = hist.spawned_in_level + Len(spawn)]
                  IN IF done
                     THEN [h EXCEPT !.bonus_total = h.bonus_total + bonus,
                                    !.levels_done = h.levels_done + 1,
                                    !.fires = <<0, 0, 0>>,
                                    !.spawned_in_level = 0,
                                    !.cities_kept =
                                        h.cities_kept + ActiveCount(ep.cities),
                                    !.last_complete =
                                        [spawned |-> h.spawned_in_level,
                                         quota |-> missiles_per_level,
                                         regenerated |->
                                             ActiveCount(ep.bases) < Len(ep.bases)]]
                     ELSE h
       /\ IF done
          THEN /\ score' = ep.score + bonus
               /\ bases' = RefillBases(ep.bases)
               /\ missiles_per_level' = LevelQuota(ep.bases)
               /\ flash_timer' = FLASH_DURATION
               /\ level' = level + 1
               /\ enemy_spawn_rate' = NextSpawnRate(enemy_spawn_rate)
               /\ enemy_spawn_timer' = 0
               /\ missiles_spawned_this_level' = 0
          ELSE /\ score' = ep.score
               /\ bases' = ep.bases
               /\ flash_timer' = IF flash_timer > 0 THEN flash_timer - 1 ELSE flash_timer
               /\ enemy_spawn_timer' = timer2
               /\ missiles_spawned_this_level' = spawned1
               /\ UNCHANGED <<level, enemy_spawn_rate, missiles_per_level>>

\* what spawn_enemy_missile may append in the coming update: one Threat from a
\* random column to a random active city or base when a spawn is due
SpawnOptions ==
    LET targets == PossibleTargets(cities, bases)
    IN IF SpawnDue(enemy_spawn_timer + 1, enemy_spawn_rate,
                   missiles_spawned_this_level, missiles_per_level)
          /\ Len(targets) > 0
       THEN { << EnemyMissile(start_x, targets[k][1], targets[k][2]) >> :
                  start_x \in SpawnXs, k \in TargetPicks(Len(targets)) }
       ELSE { <<>> }

\* one iteration of the loop of Game.run calling update
Tick ==
    IF game_over THEN UNCHANGED vars
    ELSE \E spawn \in SpawnOptions :
             /\ spawns + Len(spawn) <= MaxThreats
             /\ enemy_spawn_timer < MaxTimer
             /\ Update(spawn)

(***************************************************************************)
(* The ground branch of update alone, as a function of the impact column   *)
(* and of which cities and bases are active: every combination of active   *)
(* flags, on the entities setup_game creates, and every column.            *)
(***************************************************************************)
ImpactColumns == 0..SCREEN_WIDTH

ActiveFlags(n) == [1..n -> BOOLEAN]

InitImpact ==
    /\ \E ca \in ActiveFlags(6), ba \in ActiveFlags(3) :
          /\ cities = [i \in 1..6 |-> [SetupCities[i] EXCEPT !.active = ca[i]]]
          /\ bases = [i \in 1..3 |-> [SetupBases[i] EXCEPT !.active = ba[i]]]
    /\ game_over = FALSE
    /\ score = 0
    /\ level = 1
    /\ enemy_spawn_timer = 0
    /\ enemy_spawn_rate = SPAWN_RATE_INIT
    /\ missiles_spawned_this_level = 0
    /\ flash_timer = 0
    /\ player_missiles = <<>>
    /\ enemy_missiles = <<>>
    /\ explosions = <<>>
    /\ missiles_per_level = SumAmmo(SetupBases, 3)
    /\ restarts = 0
    /\ clicks = 0
    /\ spawns = 0
    /\ since_spawn = SPAWN_RATE_INIT
    /\ hist = HistInit

\* the ground branch applied once to a missile in column x
Impact ==
    /\ explosions = <<>>
    /\ \E x \in ImpactColumns :
          LET g == GroundImpact(cities, bases, explosions, x)
          IN /\ cities' = g.cities
             /\ bases' = g.bases
             /\ explosions' = g.explosions
    /\ UNCHANGED <<game_over, score, level, enemy_spawn_timer, enemy_spawn_rate,
                   missiles_spawned_this_level, missiles_per_level, flash_timer,
                   player_missiles, enemy_missiles, restarts, clicks, spawns,
                   since_spawn, hist>>

SpecImpact == InitImpact /\ [][Impact]_vars

(***************************************************************************)
(* The life of the explosions alone, with the program's growth rate and    *)
(* duration: explosions are appended (as the player loop and the ground    *)
(* branch of update do) and the explosion loop of update runs over them.   *)
(***************************************************************************)
PROGRAM_GROWTH_RATE == 2
PROGRAM_DURATION == 45
MaxBlasts == 2                 \* explosions alive at once

\* self.explosions.append(Explosion(x, y))
ExplosionsAppend ==
    /\ Len(explosions) < MaxBlasts
    /\ \E pos \in MousePositions :
          explosions' = Append(explosions,
                               ExplosionOf(pos[1], pos[2], PROGRAM_DURATION))
    /\ UNCHANGED <<game_over, score, level, enemy_spawn_timer, enemy_spawn_rate,
                   missiles_spawned_this_level, missiles_per_level, flash_timer,
                   bases, cities, player_missiles, enemy_missiles, restarts,
                   clicks, spawns, since_spawn, hist>>

\* the explosion loop of update
ExplosionsUpdate ==
    /\ explosions # <<>>
    /\ explosions' = ExplosionPassAt(explosions, PROGRAM_GROWTH_RATE)
    /\ UNCHANGED <<game_over, score, level, enemy_spawn_timer, enemy_spawn_rate,
                   missiles_spawned_this_level, missiles_per_level, flash_timer,
                   bases, cities, player_missiles, enemy_missiles, restarts,
                   clicks, spawns, since_spawn, hist>>

NextBlast == ExplosionsAppend \/ ExplosionsUpdate

SpecBlast == Init /\ [][NextBlast]_vars

Next ==
    \/ Tick
    \/ \E button \in Buttons, pos \in MousePositions : MouseButtonDown(button, pos)
    \/ KeySpace

Spec == Init /\ [][Next]_vars

(***************************************************************************)
(* The game that is never restarted, its loop never stopping: Game.run     *)
(* calls update in every iteration, so an update is run whenever one can   *)
(* be.  Every update of a game in PLAYING changes enemy_spawn_timer        *)
(* (incremented, or reset by a spawn or a level-complete) or flash_timer   *)
(* (set by a level-complete), and no event handler changes either; the     *)
(* fairness of Tick is stated on these two counters.                       *)
(***************************************************************************)
NextLive ==
    \/ Tick
    \/ \E button \in Buttons, pos \in MousePositions : MouseButtonDown(button, pos)

\* the exploration has spent its Threats: a spawn is due that it does not make
Capped ==
    /\ ~game_over
    /\ spawns >= MaxThreats
    /\ SpawnDue(enemy_spawn_timer + 1, enemy_spawn_rate,
                missiles_spawned_this_level, missiles_per_level)

\* an update that changes the state can be run: the game is in PLAYING and
\* the exploration has not stopped
TickEnabled == ~game_over /\ ~Capped /\ enemy_spawn_timer < MaxTimer

\* Tick as seen on the two tick counters
TickStep ==
    /\ TickEnabled
    /\ enemy_spawn_timer' \in 0..MaxTimer
    /\ flash_timer' \in 0..FLASH_DURATION

SpecLive ==
    Init /\ [][NextLive]_vars /\ WF_<<enemy_spawn_timer, flash_timer>>(TickStep)

(***************************************************************************)
(* The claims.  Helpers first: they restate, from the pre-state of a step, *)
(* what the collision pass of an update sees.                              *)
(***************************************************************************)
Range(s) == {s[i] : i \in 1..Len(s)}

\* a step that is an update run in PLAYING
IsUpdate == ~game_over /\ clicks' = clicks /\ restarts' = restarts

\* a step that is a restart
IsRestart == game_over /\ ~game_over'

\* the ground of the fairness condition of SpecLive: every update run in
\* PLAYING changes one of the two tick counters, and no event handler does
TickChangesCounters ==
    [][ IF IsUpdate
        THEN <<enemy_spawn_timer, flash_timer>>' # <<enemy_spawn_timer, flash_timer>>
        ELSE UNCHANGED <<enemy_spawn_timer, flash_timer>> ]_vars

NoTargetActive == \A i \in 1..Len(cities) : ~cities[i].active

\* the Blasts live when the collision pass of the coming update starts
PassBlasts == PlayerPass(player_missiles, 1, <<>>, explosions).explosions

\* the Threats of the coming update after their move, spawn being the new ones
MovedThreats(spawn) ==
    LET all == enemy_missiles \o spawn
    IN [i \in 1..Len(all) |-> MissileUpdate(all[i])]

InsideBlast(m, blasts) ==
    \E j \in 1..Len(blasts) :
        (m.x - blasts[j].x) * (m.x - blasts[j].x)
          + (m.y - blasts[j].y) * (m.y - blasts[j].y)
        <= blasts[j].radius * blasts[j].radius

\* the moved Threats that lie inside a Blast
BlastHits(spawn) ==
    {i \in 1..Len(MovedThreats(spawn)) : InsideBlast(MovedThreats(spawn)[i], PassBlasts)}

\* the bonus a step awards: that of a level-complete, if it is one
LevelBonus ==
    IF level' > level
    THEN CITY_BONUS * Cardinality({i \in 1..Len(cities') : cities'[i].active})
         + BASE_BONUS * Len(bases')
    ELSE 0

\* C1: an update completes a level (level + 1) only when no Threat is left
\* after its collision pass and some Target is active; an update that ends
\* with all Targets inactive sets GAME_OVER, keeps the level and adds to the
\* score nothing but the rewards of the Threats blasted in it.
C1_LevelCompleteOnlyWhenClear ==
    [][ IsUpdate =>
          /\ level' # level =>
                /\ level' = level + 1
                /\ enemy_missiles' = <<>>
                /\ ~NoTargetActive'
                /\ ~game_over'
          /\ NoTargetActive' =>
                /\ game_over'
                /\ level' = level
                /\ hist'.levels_done = hist.levels_done
                /\ score' = score + KILL_REWARD * Cardinality(BlastHits(hist'.last_spawn))
      ]_vars

\* a game that completed a level and later ended with all Targets inactive
C1_Witness == game_over /\ hist.levels_done > 0 /\ NoTargetActive

\* C2: the game is in GAME_OVER exactly when all Targets are inactive, in
\* every state, so at the end of every update run in PLAYING.
C2_GameOverIffNoTarget == game_over <=> NoTargetActive

\* GAME_OVER entered with a Threat still live, a Launcher active and loaded
C2_Witness ==
    /\ game_over
    /\ enemy_missiles # <<>>
    /\ \E b \in 1..3 : bases[b].active /\ bases[b].ammo > 0

\* C3: a restart leads to PLAYING with score 0, level 1, 6 active Targets,
\* 3 active Launchers with starting ammo and no Interceptor, Threat or Blast.
C3_RestartResetsEntities ==
    [][ IsRestart =>
          /\ score' = 0
          /\ level' = 1
          /\ Len(cities') = 6
          /\ \A i \in 1..6 : cities'[i].active
          /\ Len(bases') = 3
          /\ \A b \in 1..3 : bases'[b].active /\ bases'[b].ammo = starting_ammo
          /\ player_missiles' = <<>>
          /\ enemy_missiles' = <<>>
          /\ explosions' = <<>>
      ]_vars

\* the state right after a restart of a game lost beyond level 1
C3_Witness ==
    /\ restarts = 1
    /\ ~game_over
    /\ score = 0
    /\ level = 1
    /\ hist = HistInit
    /\ enemy_spawn_rate < SPAWN_RATE_INIT

\* C4 (as claimed): after a restart every field, those of the wave
\* controller included, has the value Game.__init__ gives it.
C4_RestartIsFreshGame ==
    [][ IsRestart =>
          /\ score' = 0
          /\ level' = 1
          /\ bases' = SetupBases
          /\ cities' = SetupCities
          /\ player_missiles' = <<>>
          /\ enemy_missiles' = <<>>
          /\ explosions' = <<>>
          /\ enemy_spawn_rate' = SPAWN_RATE_INIT
          /\ missiles_spawned_this_level' = 0
          /\ enemy_spawn_timer' = 0
          /\ missiles_per_level' = 3 * starting_ammo
          /\ flash_timer' = 0
      ]_vars

\* C5 (as claimed): when a level completes, at least quota-many Threats
\* were spawned since the level began (game start, level-complete, restart).
C5_QuotaSpawnedBeforeComplete ==
    hist.last_complete.spawned >= hist.last_complete.quota

\* C6: ammo stays within 0..starting_ammo and equals starting_ammo minus the
\* successful fires since the last refill; ammo only ever drops by 1, on a
\* pointer-button event in PLAYING at an active Launcher with ammo, and that
\* step appends exactly one Interceptor, started at that Launcher; a
\* pointer-button event that drops no ammo appends none.
C6_AmmoAndFire ==
    [][ LET dropped == {b \in 1..3 : bases'[b].ammo < bases[b].ammo}
        IN /\ \A b \in 1..3 :
                 /\ bases'[b].ammo >= 0
                 /\ bases'[b].ammo <= starting_ammo
                 /\ bases'[b].ammo = starting_ammo - hist'.fires[b]
           /\ \A b \in dropped :
                 /\ clicks' # clicks
                 /\ ~game_over
                 /\ bases[b].active
                 /\ bases[b].ammo > 0
                 /\ bases'[b].ammo = bases[b].ammo - 1
                 /\ Len(player_missiles') = Len(player_missiles) + 1
                 /\ SubSeq(player_missiles', 1, Len(player_missiles)) = player_missiles
                 /\ player_missiles'[Len(player_missiles')].x = bases[b].x
                 /\ player_missiles'[Len(player_missiles')].y = bases[b].y
           /\ clicks' # clicks =>
                 /\ Cardinality(dropped) <= 1
                 /\ dropped = {} => player_missiles' = player_missiles
      ]_vars

\* a Launcher that has fired its ammo away, its Interceptor in flight
C6_Witness ==
    \E b \in 1..3 :
        /\ bases[b].ammo = starting_ammo - 1
        /\ hist.fires[b] = 1
        /\ player_missiles # <<>>

\* C7: in an update run in PLAYING every Threat that after its move lies
\* within the radius of a Blast is gone from the live Threats afterwards, and
\* the score grows by 25 for each such Threat, once, besides a level bonus.
C7_BlastRemovesThreat ==
    [][ IsUpdate =>
          LET moved == MovedThreats(hist'.last_spawn)
              hits == BlastHits(hist'.last_spawn)
          IN /\ \A i \in hits : moved[i] \notin Range(enemy_missiles')
             /\ score' = score + KILL_REWARD * Cardinality(hits) + LevelBonus
      ]_vars

\* Threats were blasted, one of them inside two Blasts, and each scored 25
C7_Witness ==
    /\ hist.overlap_kills > 0
    /\ hist.levels_done = 0
    /\ score = KILL_REWARD * hist.blast_kills

\* C8: a Threat outside every Blast that reaches the ground line within the
\* hit radius of exactly one active Target: after the update the Target is
\* inactive, a Blast born in this update stands at the Target's position, the
\* Threat is gone, and the score has grown only by blast rewards and bonus.
C8_GroundImpactOnTarget ==
    [][ IsUpdate =>
          LET moved == MovedThreats(hist'.last_spawn)
              hits == BlastHits(hist'.last_spawn)
              near(m) == {c \in 1..Len(cities) :
                             cities[c].active /\ Abs(cities[c].x - m.x) < HIT_RADIUS}
          IN \A i \in 1..Len(moved) :
                (i \notin hits /\ moved[i].y >= SCREEN_HEIGHT - 50
                   /\ Cardinality(near(moved[i])) = 1)
                => \A c \in near(moved[i]) :
                      /\ ~cities'[c].active
                      /\ \E j \in 1..Len(explosions') :
                            /\ explosions'[j].x = cities[c].x
                            /\ explosions'[j].y = cities[c].y
                            /\ explosions'[j].timer = EXPLOSION_DURATION - 1
                      /\ moved[i] \notin Range(enemy_missiles')
                      /\ score' = score + KILL_REWARD * Cardinality(hits) + LevelBonus
      ]_vars

\* a Target just destroyed by an impact, its Blast one update old, score 0
C8_Witness ==
    /\ score = 0
    /\ \E c \in 1..6 :
          /\ ~cities[c].active
          /\ \E j \in 1..Len(explosions) :
                /\ explosions[j].x = cities[c].x
                /\ explosions[j].y = cities[c].y
                /\ explosions[j].timer = EXPLOSION_DURATION - 1

\* C9: one ground impact deactivates at most one entity, Targets and
\* Launchers counted together, whatever the column and the active flags.
C9_ImpactDestroysAtMostOne ==
    [][ Cardinality({c \in 1..6 : cities[c].active /\ ~cities'[c].active})
        + Cardinality({b \in 1..3 : bases[b].active /\ ~bases'[b].active}) <= 1
      ]_vars

\* an impact that destroyed a Launcher while all Targets stayed active
C9_Witness ==
    /\ Len(explosions) = 1
    /\ \A c \in 1..6 : cities[c].active
    /\ \E b \in 1..3 : ~bases[b].active /\ explosions[1].x = bases[b].x

C11_QuotaIsAmmoAtLevelStart ==
    /\ missiles_per_level = SumAmmo(bases, Len(bases))
    /\ [][ IF level' > level \/ IsRestart
           THEN missiles_per_level' = SumAmmo(bases', Len(bases'))
           ELSE missiles_per_level' = missiles_per_level ]_vars

\* in a level after the first, a Launcher has been destroyed and the ammo left
\* is below the quota
C11_Witness ==
    /\ ~game_over
    /\ hist.levels_done > 0
    /\ \E b \in 1..Len(bases) : ~bases[b].active
    /\ SumAmmo(bases, Len(bases)) < missiles_per_level

\* the explosions of the pre-state that the explosion loop removes in a step:
\* those whose timer its decrement brings to 0 (they are the oldest, at the
\* front of the list)
Expiring == Cardinality({j \in 1..Len(explosions) : explosions[j].timer <= 1})

\* a step that runs the explosion loop and appends nothing
IsExplosionsUpdate == explosions # <<>> /\ Len(explosions') <= Len(explosions)

\* C12: over an update, the radius of every Blast that stays grows or stays
\* while growing is true and stays the same once growing is false, growing
\* never turns true again, and no Blast ever has a radius above
\* EXPLOSION_MAX_RADIUS (60).
C12_BlastRadius ==
    [][ /\ \A j \in 1..Len(explosions') :
              explosions'[j].radius <= EXPLOSION_MAX_RADIUS
        /\ IsExplosionsUpdate =>
              \A j \in (Expiring + 1)..Len(explosions) :
                  LET before == explosions[j]
                      after == explosions'[j - Expiring]
                  IN /\ after.x = before.x /\ after.y = before.y
                     /\ after.radius >= before.radius
                     /\ ~before.growing =>
                           ~after.growing /\ after.radius = before.radius
      ]_vars

\* a Blast that has stopped growing at the maximum radius beside one that is
\* still growing
C12_Witness ==
    \E i, j \in 1..Len(explosions) :
        /\ ~explosions[i].growing
        /\ explosions[i].radius = EXPLOSION_MAX_RADIUS
        /\ explosions[i].timer
              < PROGRAM_DURATION - EXPLOSION_MAX_RADIUS \div PROGRAM_GROWTH_RATE
        /\ explosions[j].growing
        /\ explosions[j].radius > 0

\* C13: a level-complete sets the spawn interval to the maximum of the floor
\* (30 in the program) and the previous interval less the step (5); the
\* interval always lies between the floor and its initial value (60); a Threat
\* is spawned no sooner than floor-many updates after the previous one, and an
\* update spawns at most one Threat.
C13_SpawnInterval ==
    /\ enemy_spawn_rate = SPAWN_RATE_INIT
    /\ [][ /\ level' > level =>
                 enemy_spawn_rate'
                     = (IF enemy_spawn_rate - SPAWN_RATE_STEP >= SPAWN_RATE_MIN
                        THEN enemy_spawn_rate - SPAWN_RATE_STEP
                        ELSE SPAWN_RATE_MIN)
           /\ level' <= level => enemy_spawn_rate' = enemy_spawn_rate
           /\ SPAWN_RATE_MIN <= enemy_spawn_rate'
           /\ enemy_spawn_rate' <= SPAWN_RATE_INIT
           /\ spawns' # spawns =>
                 /\ spawns' = spawns + 1
                 /\ Len(enemy_missiles') <= Len(enemy_missiles) + 1
                 /\ since_spawn + 1 >= SPAWN_RATE_MIN
         ]_vars

\* the interval has been held at the floor by a level-complete, and a second
\* Threat of that level has just been spawned
C13_Witness ==
    /\ level >= 3
    /\ enemy_spawn_rate = SPAWN_RATE_MIN
    /\ hist.spawned_in_level >= 2
    /\ hist.last_spawn # <<>>
    /\ since_spawn = 0

\* an active city or base of the pre-state stands at the point (x, y)
ActiveAt(x, y) ==
    \/ \E c \in 1..Len(cities) :
          cities[c].active /\ cities[c].x = x /\ cities[c].y = y
    \/ \E b \in 1..Len(bases) :
          bases[b].active /\ bases[b].x = x /\ bases[b].y = y

\* C14: an update spawns a Threat only when the tick counter, incremented,
\* has reached the spawn interval and the spawned-count is below the quota;
\* the counter is then 0 and the spawned-count one higher (counted in the
\* level the update completes, if it completes one); the spawned-count never
\* exceeds the quota and changes in no other way within a level; the Threat
\* spawned is aimed at a city or base that is active when it is spawned.
C14_SpawnGuard ==
    /\ missiles_spawned_this_level <= missiles_per_level
    /\ [][ /\ spawns' # spawns =>
                 /\ enemy_spawn_timer + 1 >= enemy_spawn_rate
                 /\ missiles_spawned_this_level < missiles_per_level
                 /\ enemy_spawn_timer' = 0
                 /\ IF level' = level
                    THEN missiles_spawned_this_level'
                             = missiles_spawned_this_level + 1
                    ELSE hist'.last_complete.spawned
                             = hist.spawned_in_level + 1
                 /\ Len(hist'.last_spawn) = 1
                 /\ ActiveAt(hist'.last_spawn[1].target_x,
                             hist'.last_spawn[1].target_y)
           /\ (spawns' = spawns /\ level' = level) =>
                 missiles_spawned_this_level' = missiles_spawned_this_level
           /\ missiles_spawned_this_level' <= missiles_per_level'
         ]_vars

\* the Threat that fills the quota has just been spawned, aimed at a Launcher
C14_Witness ==
    /\ hist.last_spawn # <<>>
    /\ enemy_spawn_timer = 0
    /\ missiles_spawned_this_level = missiles_per_level
    /\ \E b \in 1..Len(bases) :
          /\ bases[b].x = hist.last_spawn[1].target_x
          /\ bases[b].y = hist.last_spawn[1].target_y

\* C15: a city that is inactive stays inactive over every step but a restart
\* (ticks and level-completes included), while after every level-complete all
\* bases are active, those destroyed during the level too.
C15_TargetsStayDestroyed ==
    [][ /\ ~IsRestart =>
              \A c \in 1..Len(cities) : ~cities[c].active => ~cities'[c].active
        /\ level' > level =>
              \A b \in 1..Len(bases') : bases'[b].active
      ]_vars

\* a level has just been completed with a city lost; a base destroyed in it
\* is active again, the city is not
C15_Witness ==
    /\ hist.levels_done > 0
    /\ missiles_spawned_this_level = 0
    /\ flash_timer = FLASH_DURATION
    /\ hist.last_complete.regenerated
    /\ \A b \in 1..Len(bases) : bases[b].active
    /\ \E c \in 1..Len(cities) : ~cities[c].active

\* the fields of the Game object
GameFields ==
    <<game_over, score, level, enemy_spawn_timer, enemy_spawn_rate,
      missiles_spawned_this_level, missiles_per_level, flash_timer,
      bases, cities, player_missiles, enemy_missiles, explosions>>

\* C16: a step that starts and ends in GAME_OVER (an update tick, a
\* pointer-button event) changes no field of the game; GAME_OVER is left only
\* by a restart, a restart happens only in GAME_OVER, and in PLAYING every
\* change of the fields is that of an update or of a pointer-button event, a
\* restart key-press changing nothing.
C16_GameOverFrame ==
    [][ /\ (game_over /\ game_over') => GameFields' = GameFields
        /\ (game_over /\ ~game_over') => restarts' = restarts + 1
        /\ restarts' # restarts => game_over
        /\ ~game_over =>
              \/ clicks' = clicks + 1 /\ restarts' = restarts
              \/ \E spawn \in SpawnOptions : Update(spawn)
      ]_vars

\* in GAME_OVER, with a Blast alive and every Launcher active and loaded, a
\* pointer-button event has been handled
C16_Witness ==
    /\ game_over
    /\ hist.over_clicks > 0
    /\ explosions # <<>>
    /\ \A b \in 1..Len(bases) : bases[b].active /\ bases[b].ammo > 0

\* C18: a Blast is appended with its timer at the duration (45); every run of
\* the explosion loop lowers the timer of each Blast by exactly 1, growing or
\* not, and removes exactly the Blasts whose timer it brings to 0, so no Blast
\* is ever left with a timer of 0 or less; a Blast is growing exactly until
\* its 30th update, which brings it to the maximum radius, and so has reached
\* the maximum radius when it is removed.
C18_BlastLifetime ==
    [][ /\ Len(explosions') > Len(explosions) =>
              explosions'[Len(explosions')].timer = PROGRAM_DURATION
        /\ IsExplosionsUpdate =>
              /\ Len(explosions') = Len(explosions) - Expiring
              /\ \A j \in 1..Expiring :
                    /\ explosions[j].timer = 1
                    /\ explosions[j].radius = EXPLOSION_MAX_RADIUS
              /\ \A j \in (Expiring + 1)..Len(explosions) :
                    explosions'[j - Expiring].timer = explosions[j].timer - 1
        /\ \A j \in 1..Len(explosions') :
              LET e == explosions'[j]
                  age == PROGRAM_DURATION - e.timer
              IN /\ e.timer > 0
                 /\ e.growing <=>
                        age < EXPLOSION_MAX_RADIUS \div PROGRAM_GROWTH_RATE
                 /\ ~e.growing => e.radius = EXPLOSION_MAX_RADIUS
      ]_vars

\* a Blast in its last update before removal, at the maximum radius, beside
\* one that has just reached the maximum radius
C18_Witness ==
    \E i, j \in 1..Len(explosions) :
        /\ explosions[i].timer = 1
        /\ explosions[i].radius = EXPLOSION_MAX_RADIUS
        /\ explosions[j].timer
              = PROGRAM_DURATION - EXPLOSION_MAX_RADIUS \div PROGRAM_GROWTH_RATE
        /\ explosions[j].radius = EXPLOSION_MAX_RADIUS
        /\ ~explosions[j].growing

\* the score as the sum of its sources since the last start or restart
ScoreAccount ==
    KILL_REWARD * hist.blast_kills
    + CITY_BONUS * hist.cities_kept
    + (BASE_BONUS * Len(bases)) * hist.levels_done

MovedInterceptors ==
    [i \in 1..Len(player_missiles) |-> MissileUpdate(player_missiles[i])]

\* ... those of them within speed of their target point
Arrived ==
    {i \in 1..Len(player_missiles) :
        LET m == MovedInterceptors[i]
        IN (m.x - m.target_x) * (m.x - m.target_x)
             + (m.y - m.target_y) * (m.y - m.target_y) < m.speed * m.speed}

\* ... those of them outside the playfield and not arrived
Exited ==
    {i \in 1..Len(player_missiles) :
        LET m == MovedInterceptors[i]
        IN i \notin Arrived /\ (m.y < 0 \/ m.x < 0 \/ m.x > SCREEN_WIDTH)}

\* the Blasts of the post-state that were created in the step, at (x, y)
NewBlastsAt(x, y) ==
    {j \in 1..Len(explosions') :
        /\ explosions'[j].x = x /\ explosions'[j].y = y
        /\ explosions'[j].timer = EXPLOSION_DURATION - 1}

\* what an update does to the Interceptors: those arrived or exited are
\* removed, the others stay, moved, in their order; as many Blasts are created
\* at a target point as Interceptors have arrived there
InterceptorsResolved ==
    [][ IsUpdate =>
          /\ player_missiles'
               = [k \in 1..(Len(player_missiles) - Cardinality(Arrived \cup Exited))
                    |-> MovedInterceptors[
                            CHOOSE i \in 1..Len(player_missiles) :
                                /\ i \notin Arrived \cup Exited
                                /\ Cardinality({h \in 1..i :
                                       h \notin Arrived \cup Exited}) = k]]
          /\ \A i \in 1..Len(player_missiles) :
                Cardinality(NewBlastsAt(player_missiles[i].target_x,
                                        player_missiles[i].target_y))
                  = Cardinality({h \in Arrived :
                        /\ player_missiles[h].target_x = player_missiles[i].target_x
                        /\ player_missiles[h].target_y = player_missiles[i].target_y})
      ]_vars

\* C17 as stated: an update removes every Interceptor that has arrived (within
\* speed of its target point) or exited the playfield and keeps the others; a
\* Blast appears at the target point for each arrival and for nothing else;
\* and whenever an Interceptor is in flight, eventually none is (the
\* exploration having Threats left to spawn).
C17_InterceptorAlwaysRemoved ==
    /\ InterceptorsResolved
    /\ (player_missiles # <<>>) ~> (player_missiles = <<>> \/ Capped)

\* C17, amended: the same, but an Interceptor in flight when the game enters
\* GAME_OVER stays in flight: whenever an Interceptor is in flight, eventually
\* none is or the game is in GAME_OVER.
C17_InterceptorRemovedWhilePlaying ==
    /\ InterceptorsResolved
    /\ (player_missiles # <<>>)
          ~> (player_missiles = <<>> \/ game_over \/ Capped)

\* an Interceptor has arrived and left a Blast at its target point while
\* another, fired from further away, is still in flight
C17_Witness ==
    /\ \E j \in 1..Len(explosions), pos \in MousePositions :
          /\ explosions[j].x = pos[1] /\ explosions[j].y = pos[2]
          /\ explosions[j].timer = EXPLOSION_DURATION - 1
    /\ \E i \in 1..Len(player_missiles) :
          player_missiles[i].y < SCREEN_HEIGHT - 40

\* the levels the exploration can be in: a level takes quota-many Threats
Levels == 1..(MaxThreats \div (3 * starting_ammo) + 1)

\* C19: with updates run for ever and no restart, whatever the player fires,
\* a game in PLAYING at some level eventually completes that level or is in
\* GAME_OVER; while the spawned-count is below the quota another Threat is
\* eventually spawned, and whenever Threats are in flight eventually none is
\* (each being blasted or reaching the ground).  The exploration stops, with
\* Capped, when it has no Threat left to spawn.
C19_LevelEnds ==
    /\ \A l \in Levels :
          (~game_over /\ level = l) ~> (level > l \/ game_over \/ Capped)
    /\ (~game_over /\ missiles_spawned_this_level < missiles_per_level)
          ~> (hist.last_spawn # <<>> \/ game_over \/ Capped)
    /\ (enemy_missiles # <<>>)
          ~> (enemy_missiles = <<>> \/ game_over \/ Capped)

\* a third level has just been completed, Threats having been blasted and
\* Threats having reached the ground on the way
C19_Witness ==
    /\ ~game_over
    /\ level = 4
    /\ flash_timer = FLASH_DURATION
    /\ enemy_missiles = <<>>
    /\ hist.blast_kills > 0
    /\ \E c \in 1..Len(cities) : ~cities[c].active

====
